---- MODULE Spec2Model ----
(***************************************************************************)
(* hosting-capacity: the feeder screening scripts.                         *)
(*                                                                         *)
(*   feeder_analyze.py    reads a feature collection, derives the capacity *)
(*                        metrics, groups the features by feeder/network   *)
(*                        identifier, merges and simplifies each group's   *)
(*                        lines and writes one feature per network.  The   *)
(*                        file holds both sides of an unresolved merge:    *)
(*                        create_load_or_gen_screen (with its helper       *)
(*                        process_feeder_geometries) and                   *)
(*                        remove_branches_and_simplify; both are modelled, *)
(*                        and they share the per-network loop body.        *)
(*   hosting_screener.py  check_eligibility for one geocoded address.      *)
(*                                                                         *)
(* Units.  Coordinates are integers counting 0.00001 degree, so that the   *)
(* simplification tolerance 0.00001 is 1 and the output precision of 4     *)
(* decimals is a grid of 10.  Capacity fields (MVA, HC, SN) are integers.  *)
(* FIRST_F2025_Peak__ is a fraction and is held in hundredths (0.85 is     *)
(* 85).  A derived metric is a percentage rounded to one decimal and is    *)
(* held in tenths (85.0 is 850).                                           *)
(***************************************************************************)
EXTENDS Integers, Sequences, FiniteSets, TLC

(***************************************************************************)
(* Bounds of the model.                                                    *)
(***************************************************************************)
MaxRows == 2          \* features in a geometry-focused input file
MaxRecords == 3       \* records the server counts
MaxRecordCount == 2   \* records the server returns for one request
MaxMetricRows == 1    \* features in a metric-focused input file

(***************************************************************************)
(* Program constants.                                                      *)
(***************************************************************************)
SCALE_TENTHS == 1000            \* "* 100" then round(1): percent, in tenths
F2025_PEAK_LIMIT == 85          \* "< 0.85", in hundredths
PEAK_34_LIMIT == 950            \* "< 95", in tenths
SIMPLIFICATION_TOLERANCE == 1   \* 0.00001
COORDINATE_GRID == 10           \* coordinate_precision=4
CAPACITY_THRESHOLD_PCT == 90
INITIAL_CHUNK_SIZE == 25

(***************************************************************************)
(* Attribute values.  A raw property of a feature is a number, a string    *)
(* that spells a number, any other string, or null.  After pd.to_numeric   *)
(* it is a number or NaN.                                                  *)
(***************************************************************************)
Num(n) == [k |-> "num", v |-> n]
NumText(n) == [k |-> "numtext", v |-> n]
Text == [k |-> "text", v |-> 0]
Null == [k |-> "null", v |-> 0]
NaN == [k |-> "nan", v |-> 0]

\* pd.to_numeric(column, errors='coerce'), one value
to_numeric(x) == IF x.k \in {"num", "numtext"} THEN Num(x.v) ELSE NaN

\* series.fillna(0), one value
fillna0(x) == IF x.k = "nan" THEN Num(0) ELSE x

\* p/q rounded to the nearest integer, ties to the even one (numpy's round)
RoundDiv(p, q) ==
    LET pp == IF q < 0 THEN 0 - p ELSE p
        qq == IF q < 0 THEN 0 - q ELSE q
        f == pp \div qq
        r == pp % qq
    IN  IF 2 * r < qq THEN f
        ELSE IF 2 * r > qq THEN f + 1
        ELSE IF f % 2 = 0 THEN f ELSE f + 1

\* series < limit, one value: a comparison with NaN is False
LessThan(x, limit) == x.k = "num" /\ x.v < limit

\* valid = column.fillna(0) != 0
valid_denominator(den) == fillna0(den).v # 0

\* mutant: no "column = 0.0" default, an invalid denominator leaves NaN
RatioMetric_nodefault(num, den) ==
    IF ~valid_denominator(den) \/ num.k = "nan" THEN NaN
    ELSE Num(RoundDiv(num.v * SCALE_TENTHS, den.v))

\* column = 0.0; column[valid] = (num / den * 100).round(1)
RatioMetric(num, den) ==
    IF ~valid_denominator(den) THEN Num(0)
    ELSE IF num.k = "nan" THEN NaN
    ELSE Num(RoundDiv(num.v * SCALE_TENTHS, den.v))

\* column = 0.0; column[valid] = ((1 - (HC / Feeder_SN)) * 100).round(1)
UtilMetric(hc, sn) ==
    IF ~valid_denominator(sn) THEN Num(0)
    ELSE IF hc.k = "nan" THEN NaN
    ELSE Num(RoundDiv((sn.v - hc.v) * SCALE_TENTHS, sn.v))

\* mutant: | in place of &
ReadyFlag_or(peak25pct, peak34) ==
    IF LessThan(peak25pct, F2025_PEAK_LIMIT) \/ LessThan(peak34, PEAK_34_LIMIT)
    THEN "Y" ELSE "N"

\* ((F2025_Peak__ < 0.85) & (peak_34 < 95)).map({True: 'Y', False: 'N'})
ReadyFlag(peak25pct, peak34) ==
    IF LessThan(peak25pct, F2025_PEAK_LIMIT) /\ LessThan(peak34, PEAK_34_LIMIT)
    THEN "Y" ELSE "N"

(***************************************************************************)
(* Geometry values (shapely).  parts is the sequence of coordinate         *)
(* sequences of the geometry; a point is <<x, y>>.                          *)
(***************************************************************************)
NoneGeom == [t |-> "None", parts |-> <<>>]
Point(p) == [t |-> "Point", parts |-> << <<p>> >>]
LineString(c) == [t |-> "LineString", parts |-> IF c = <<>> THEN <<>> ELSE <<c>>]
MultiLineString(ps) == [t |-> "MultiLineString", parts |-> ps]
EmptyCollection == [t |-> "GeometryCollection", parts |-> <<>>]

\* geom.is_empty
is_empty(g) == \A i \in 1..Len(g.parts) : g.parts[i] = <<>>

\* the geometry that holds the given lines (GEOS buildGeometry)
LinesGeometry(lines) ==
    IF lines = <<>> THEN EmptyCollection
    ELSE IF Len(lines) = 1 THEN LineString(lines[1])
    ELSE MultiLineString(lines)

RECURSIVE SumSeq(_)
SumSeq(s) == IF s = <<>> THEN 0 ELSE Head(s) + SumSeq(Tail(s))

\* number of coordinates of a geometry
VertexCount(g) == SumSeq([i \in 1..Len(g.parts) |-> Len(g.parts[i])])

\* the points of a sequence of lines
PointsOf(lines) == UNION {{lines[i][j] : j \in 1..Len(lines[i])} : i \in 1..Len(lines)}

Reverse(s) == [i \in 1..Len(s) |-> s[Len(s) + 1 - i]]

(***************************************************************************)
(* The loop body, lines 68-78: flatten MultiLineStrings, keep only lines.  *)
(***************************************************************************)
RECURSIVE FlattenLines(_)
FlattenLines(geoms) ==
    IF geoms = <<>> THEN <<>>
    ELSE LET geom == Head(geoms)
             rest == FlattenLines(Tail(geoms))
         IN  IF geom.t = "None" \/ is_empty(geom) THEN rest
             ELSE IF geom.t = "LineString" THEN <<geom.parts[1]>> \o rest
             ELSE IF geom.t = "MultiLineString" THEN geom.parts \o rest
             ELSE rest

(***************************************************************************)
(* shapely.ops.linemerge (GEOS LineMerger).  Every line is an edge between *)
(* the nodes at its first and last coordinate; a node is a coordinate,     *)
(* compared exactly.  Edge strings are started at every node whose degree  *)
(* is not 2 and followed through nodes of degree 2; what is left are       *)
(* isolated loops.  The order in which GEOS visits the out-edges of one    *)
(* node (by angle) is replaced by the order of the input; it decides the   *)
(* order of the merged lines and where a loop starts, not their content.   *)
(***************************************************************************)
RECURSIVE removeRepeatedPoints(_)
removeRepeatedPoints(c) ==
    IF Len(c) <= 1 THEN c
    ELSE LET r == removeRepeatedPoints(Tail(c))
         IN  IF c[1] = c[2] THEN r ELSE <<c[1]>> \o r

\* LineMergeGraph.addEdge: empty and single-point lines add no edge
MergeEdges(pieces) ==
    SelectSeq([i \in 1..Len(pieces) |-> removeRepeatedPoints(pieces[i])],
              LAMBDA c : Len(c) >= 2)

\* a directed edge is <<edge index, 0 forward | 1 backward>>
NoEdge == <<0, 0>>
DirectedEdges(E) == {<<i, d>> : i \in 1..Len(E), d \in {0, 1}}
FromNode(E, de) == IF de[2] = 0 THEN E[de[1]][1] ELSE E[de[1]][Len(E[de[1]])]
ToNode(E, de) == IF de[2] = 0 THEN E[de[1]][Len(E[de[1]])] ELSE E[de[1]][1]
Sym(de) == <<de[1], 1 - de[2]>>
OutEdges(E, n) == {de \in DirectedEdges(E) : FromNode(E, de) = n}
Degree(E, n) == Cardinality(OutEdges(E, n))
Nodes(E) == {FromNode(E, de) : de \in DirectedEdges(E)}

\* LineMergeDirectedEdge.getNext
getNext(E, de) ==
    IF Degree(E, ToNode(E, de)) # 2 THEN NoEdge
    ELSE CHOOSE x \in OutEdges(E, ToNode(E, de)) \ {Sym(de)} : TRUE

\* LineMerger.buildEdgeStringStartingWith: do { add } while (next # null, start)
RECURSIVE followEdges(_, _, _, _)
followEdges(E, start, current, acc) ==
    LET nxt == getNext(E, current)
    IN  IF nxt = NoEdge \/ nxt = start THEN Append(acc, current)
        ELSE followEdges(E, start, nxt, Append(acc, current))

buildEdgeStringStartingWith(E, start) == followEdges(E, start, start, <<>>)

PointLess(p, q) == p[1] < q[1] \/ (p[1] = q[1] /\ p[2] < q[2])

RECURSIVE SortPoints(_)
SortPoints(S) ==
    IF S = {} THEN <<>>
    ELSE LET m == CHOOSE p \in S : \A q \in S \ {p} : PointLess(p, q)
         IN  <<m>> \o SortPoints(S \ {m})

RECURSIVE SortEdges(_)
SortEdges(S) ==
    IF S = {} THEN <<>>
    ELSE LET m == CHOOSE a \in S : \A b \in S \ {a} :
                      a[1] < b[1] \/ (a[1] = b[1] /\ a[2] < b[2])
         IN  <<m>> \o SortEdges(S \ {m})

RECURSIVE ConcatAll(_)
ConcatAll(ss) == IF ss = <<>> THEN <<>> ELSE Head(ss) \o ConcatAll(Tail(ss))

\* the directed edges in the order merge() tries them as starts:
\* buildEdgeStringsForObviousStartNodes, then buildEdgeStringsForIsolatedLoops
StartEdges(E) ==
    LET ns == SortPoints(Nodes(E))
        obvious == SelectSeq(ns, LAMBDA n : Degree(E, n) # 2)
        loops == SelectSeq(ns, LAMBDA n : Degree(E, n) = 2)
        outs(seq) == ConcatAll([i \in 1..Len(seq) |-> SortEdges(OutEdges(E, seq[i]))])
    IN  outs(obvious) \o outs(loops)

\* buildEdgeStringsStartingAt: skip an edge that is marked, mark what is used
RECURSIVE buildEdgeStrings(_, _, _, _)
buildEdgeStrings(E, starts, marked, acc) ==
    IF starts = <<>> THEN acc
    ELSE IF Head(starts)[1] \in marked
         THEN buildEdgeStrings(E, Tail(starts), marked, acc)
         ELSE LET str == buildEdgeStringStartingWith(E, Head(starts))
              IN  buildEdgeStrings(E, Tail(starts),
                                   marked \cup {str[i][1] : i \in 1..Len(str)},
                                   Append(acc, str))

EdgeStrings(E) == buildEdgeStrings(E, StartEdges(E), {}, <<>>)

\* EdgeString.getCoordinates: the edges' coordinates in walking order, the
\* joining coordinate written once
RECURSIVE edgeStringCoordinates(_, _)
edgeStringCoordinates(E, str) ==
    IF str = <<>> THEN <<>>
    ELSE LET de == str[Len(str)]
             c == IF de[2] = 0 THEN E[de[1]] ELSE Reverse(E[de[1]])
             before == edgeStringCoordinates(E, SubSeq(str, 1, Len(str) - 1))
         IN  IF before = <<>> THEN c ELSE before \o Tail(c)

\* the segments of a line, each as a line of its own
Segments(c) == [i \in 1..(Len(c) - 1) |-> <<c[i], c[i + 1]>>]

\* mutant: the lines are noded at every vertex instead of merged
MergedLines_segments(pieces) ==
    LET E == MergeEdges(pieces)
    IN  ConcatAll([i \in 1..Len(E) |-> Segments(E[i])])

\* mutant: only the first merged line is kept
MergedLines_first(pieces) ==
    LET E == MergeEdges(pieces)
        strs == EdgeStrings(E)
    IN  IF strs = <<>> THEN <<>> ELSE <<edgeStringCoordinates(E, strs[1])>>

\* mutant: no joining, every piece stays a line of its own
MergedLines_nomerge(pieces) == MergeEdges(pieces)

MergedLines(pieces) ==
    LET E == MergeEdges(pieces)
        strs == EdgeStrings(E)
    IN  [i \in 1..Len(strs) |-> edgeStringCoordinates(E, strs[i])]

linemerge(pieces) == LinesGeometry(MergedLines(pieces))

(***************************************************************************)
(* geometry.simplify(tolerance, preserve_topology=True) (GEOS              *)
(* TopologyPreservingSimplifier): Douglas-Peucker on every line of the     *)
(* geometry, in order, where a section is flattened to its chord only if   *)
(* the chord is within the tolerance, leaves the line its minimum size,   *)
(* and meets no segment of the input or of the output in an interior       *)
(* point.  Distances are compared exactly, as squared fractions.           *)
(***************************************************************************)
Cross(a, b, c) == (b[1] - a[1]) * (c[2] - a[2]) - (b[2] - a[2]) * (c[1] - a[1])
Sign(n) == IF n > 0 THEN 1 ELSE IF n < 0 THEN 0 - 1 ELSE 0
Dist2(a, b) == (a[1] - b[1]) * (a[1] - b[1]) + (a[2] - b[2]) * (a[2] - b[2])
Between(u, v, w) == (u <= w /\ w <= v) \/ (v <= w /\ w <= u)
OnSegment(a, b, p) ==
    Cross(a, b, p) = 0 /\ Between(a[1], b[1], p[1]) /\ Between(a[2], b[2], p[2])
ProperCrossing(a, b, c, d) ==
    /\ Sign(Cross(a, b, c)) * Sign(Cross(a, b, d)) < 0
    /\ Sign(Cross(c, d, a)) * Sign(Cross(c, d, b)) < 0

\* LineIntersector.isInteriorIntersection of two segments <<p0, p1>>
hasInteriorIntersection(s0, s1) ==
    \/ ProperCrossing(s0[1], s0[2], s1[1], s1[2])
    \/ \E p \in {s1[1], s1[2]} : OnSegment(s0[1], s0[2], p) /\ p \notin {s0[1], s0[2]}
    \/ \E p \in {s0[1], s0[2]} : OnSegment(s1[1], s1[2], p) /\ p \notin {s1[1], s1[2]}

\* LineSegment.distance(p), squared, as the fraction <<numerator, denominator>>
SegmentDistance2(p, a, b) ==
    LET len2 == Dist2(a, b)
        dot == (p[1] - a[1]) * (b[1] - a[1]) + (p[2] - a[2]) * (b[2] - a[2])
    IN  IF len2 = 0 \/ dot <= 0 THEN <<Dist2(p, a), 1>>
        ELSE IF dot >= len2 THEN <<Dist2(p, b), 1>>
        ELSE <<Cross(a, b, p) * Cross(a, b, p), len2>>

FractionGreater(f, g) == f[1] * g[2] > g[1] * f[2]

\* findFurthestPoint: the first interior index of greatest distance
RECURSIVE furthestFrom(_, _, _, _, _, _)
furthestFrom(pts, i, j, k, best, bestD) ==
    IF k >= j THEN <<best, bestD>>
    ELSE LET d == SegmentDistance2(pts[k], pts[i], pts[j])
         IN  IF FractionGreater(d, bestD)
             THEN furthestFrom(pts, i, j, k + 1, k, d)
             ELSE furthestFrom(pts, i, j, k + 1, best, bestD)

findFurthestPoint(pts, i, j) == furthestFrom(pts, i, j, i + 1, i, <<0 - 1, 1>>)

\* TaggedLineString.addToResult: the result as a coordinate sequence
addToResult(res, a, b) == IF res = <<>> THEN <<a, b>> ELSE Append(res, b)

\* the topology-preserving simplifier flattens a section within tolerance
WithinTolerance(d) ==
    ~(d[1] > SIMPLIFICATION_TOLERANCE * SIMPLIFICATION_TOLERANCE * d[2])

\* TaggedLineStringSimplifier.simplifySection; st is [inp, out, res]: the
\* segments <<line, index>> left in the input index, the segments of the
\* output index, and the result of the line so far
RECURSIVE simplifySection(_, _, _, _, _, _, _)
simplifySection(L, l, i, j, depth0, minSize, st) ==
    LET pts == L[l]
        depth == depth0 + 1
    IN  IF i + 1 = j
        THEN [st EXCEPT !.res = addToResult(st.res, pts[i], pts[j])]
        ELSE LET f == findFurthestPoint(pts, i, j)
                 cand == <<pts[i], pts[j]>>
                 sizeOk == ~(Len(st.res) < minSize /\ depth + 1 < minSize)
                 badOutput == \E s \in st.out : hasInteriorIntersection(s, cand)
                 badInput ==
                     \E q \in st.inp :
                        /\ ~(q[1] = l /\ q[2] >= i /\ q[2] < j)
                        /\ hasInteriorIntersection(
                               <<L[q[1]][q[2]], L[q[1]][q[2] + 1]>>, cand)
             IN  IF sizeOk /\ WithinTolerance(f[2]) /\ ~badOutput /\ ~badInput
                 THEN [inp |-> st.inp \ {<<l, s>> : s \in i..(j - 1)},
                       out |-> st.out \cup {cand},
                       res |-> addToResult(st.res, pts[i], pts[j])]
                 ELSE simplifySection(L, l, f[1], j, depth, minSize,
                          simplifySection(L, l, i, f[1], depth, minSize, st))

\* TaggedLinesSimplifier.simplify: the lines one after the other, over one
\* input index and one output index
RECURSIVE simplifyLines(_, _, _, _)
simplifyLines(L, l, st, acc) ==
    IF l > Len(L) THEN acc
    ELSE LET minSize == IF L[l][1] = L[l][Len(L[l])] THEN 4 ELSE 2
             done == simplifySection(L, l, 1, Len(L[l]), 0, minSize,
                                     [st EXCEPT !.res = <<>>])
         IN  simplifyLines(L, l + 1, done, Append(acc, done.res))

SimplifiedLines(L) ==
    simplifyLines(L, 1,
        [inp |-> UNION {{<<l, s>> : s \in 1..(Len(L[l]) - 1)} : l \in 1..Len(L)},
         out |-> {}, res |-> <<>>],
        <<>>)

\* mutant: a line no longer than the tolerance is dropped
simplify_dropshort(g) ==
    IF is_empty(g) THEN g
    ELSE LinesGeometry(SelectSeq(SimplifiedLines(g.parts),
             LAMBDA c : ~(Len(c) = 2 /\ WithinTolerance(<<Dist2(c[1], c[2]), 1>>))))

simplify(g) == IF is_empty(g) THEN g ELSE [g EXCEPT !.parts = SimplifiedLines(g.parts)]

(***************************************************************************)
(* to_file(..., coordinate_precision=4): every coordinate is written       *)
(* rounded to the grid; no coordinate is left out.                         *)
(***************************************************************************)
RoundCoordinate(c) == RoundDiv(c, COORDINATE_GRID) * COORDINATE_GRID

\* mutant: coordinates that round to the same point are written once
RoundGeometry_dedupe(g) ==
    [g EXCEPT !.parts =
        [i \in 1..Len(g.parts) |->
            removeRepeatedPoints(
                [j \in 1..Len(g.parts[i]) |->
                    <<RoundCoordinate(g.parts[i][j][1]),
                      RoundCoordinate(g.parts[i][j][2])>>])]]

RoundGeometry(g) ==
    [g EXCEPT !.parts =
        [i \in 1..Len(g.parts) |->
            [j \in 1..Len(g.parts[i]) |->
                <<RoundCoordinate(g.parts[i][j][1]), RoundCoordinate(g.parts[i][j][2])>>]]]

(***************************************************************************)
(* Data frames.  A row is a function from column names to values; a frame  *)
(* is [columns, rows].                                                     *)
(***************************************************************************)
NA == "<NA>"                       \* a null identifier
KeyOrder == <<"F1", "f1">>         \* the identifiers in sorted (code point) order

WithColumn(row, name, value) == (name :> value) @@ row
Project(row, names) == [c \in names |-> row[c]]

\* gdf.groupby(id_col): sort=True, dropna=True; the rows of a group keep their
\* order.  The result is the sequence the for loop walks through.
\* mutant: dropna=False, the null identifier is a key like any other
GroupKeys_keepna(rows, id_column) ==
    SelectSeq(KeyOrder \o <<NA>>,
              LAMBDA k : \E i \in 1..Len(rows) : rows[i][id_column] = k)

GroupKeys(rows, id_column) ==
    SelectSeq(KeyOrder, LAMBDA k : \E i \in 1..Len(rows) : rows[i][id_column] = k)

groupby(rows, id_column) ==
    LET keys == GroupKeys(rows, id_column)
    IN  [g \in 1..Len(keys) |->
            [name |-> keys[g],
             rows |-> SelectSeq(rows, LAMBDA r : r[id_column] = keys[g])]]

(***************************************************************************)
(* Derived columns, per row.                                               *)
(***************************************************************************)
LoadNumericHead == {"FIRST_F2034_Peak_MVA", "FIRST_Summer_Rating__MVA_",
                    "FIRST_F2025_Peak_MVA", "FIRST_F2025_Peak__"}
LoadNumericIncoming == {"FIRST_F2034_Peak_MVA", "FIRST_Summer_Rating__MVA_",
                        "FIRST_F2025_Peak__"}
GenNumeric == {"HC", "Feeder_SN"}

Coerce(row, names) ==
    [c \in DOMAIN row |-> IF c \in names THEN to_numeric(row[c]) ELSE row[c]]

\* create_load_or_gen_screen, type == 'load' (lines 131-147)
DeriveLoadHead(row) ==
    LET r == Coerce(row, LoadNumericHead)
        p34 == RatioMetric(r["FIRST_F2034_Peak_MVA"], r["FIRST_Summer_Rating__MVA_"])
        p25 == RatioMetric(r["FIRST_F2025_Peak_MVA"], r["FIRST_Summer_Rating__MVA_"])
    IN  WithColumn(WithColumn(WithColumn(r, "load_peak_34", p34), "load_peak_25", p25),
                   "HP_Ready", ReadyFlag(r["FIRST_F2025_Peak__"], p34))

\* create_load_or_gen_screen, type == 'gen' (lines 154-161)
DeriveGenHead(row) ==
    LET r == Coerce(row, GenNumeric)
    IN  WithColumn(r, "gen_util", UtilMetric(r["HC"], r["Feeder_SN"]))

\* remove_branches_and_simplify, type == 'load' (lines 35-41)
DeriveLoadIncoming(row) ==
    LET r == Coerce(row, LoadNumericIncoming)
        p34 == RatioMetric(r["FIRST_F2034_Peak_MVA"], r["FIRST_Summer_Rating__MVA_"])
    IN  WithColumn(WithColumn(r, "Peak_34", p34),
                   "Ready", ReadyFlag(r["FIRST_F2025_Peak__"], p34))

\* remove_branches_and_simplify, else (lines 45-49)
DeriveGenIncoming(row) ==
    LET r == Coerce(row, GenNumeric)
    IN  WithColumn(r, "Util", UtilMetric(r["HC"], r["Feeder_SN"]))

(***************************************************************************)
(* hosting_screener.py: check_eligibility for one address.  inside is      *)
(* inclusion_boundary.contains(point); the capacities are those of the     *)
(* nearest feeder.  'N/A' is Text.                                         *)
(***************************************************************************)
YesNo(b) == IF b THEN "yes" ELSE "no"

check_eligibility(inside, gen_cap, load_cap) ==
    IF ~inside
    THEN [overall_eligible |-> "no",
          GEN_CAPACITY_PCT |-> Text, LOAD_CAPACITY_PCT |-> Text,
          battery_incentive_eligible |-> "no",
          heat_pump_incentive_eligible |-> "no"]
    ELSE [overall_eligible |-> "yes",
          GEN_CAPACITY_PCT |-> gen_cap, LOAD_CAPACITY_PCT |-> load_cap,
          battery_incentive_eligible |->
              YesNo(LessThan(gen_cap, CAPACITY_THRESHOLD_PCT)
                    /\ LessThan(load_cap, CAPACITY_THRESHOLD_PCT)),
          heat_pump_incentive_eligible |->
              YesNo(LessThan(load_cap, CAPACITY_THRESHOLD_PCT))]

\* process_addresses, the branch where geocoding failed
GeocodingFailed ==
    [overall_eligible |-> "error",
     GEN_CAPACITY_PCT |-> Text, LOAD_CAPACITY_PCT |-> Text,
     battery_incentive_eligible |-> "error",
     heat_pump_incentive_eligible |-> "error"]

NoResult ==
    [overall_eligible |-> "", GEN_CAPACITY_PCT |-> Text, LOAD_CAPACITY_PCT |-> Text,
     battery_incentive_eligible |-> "", heat_pump_incentive_eligible |-> ""]

(***************************************************************************)
(* State.                                                                  *)
(***************************************************************************)
VARIABLES
    script,               \* the function that runs
    type,                 \* its type argument
    policy,               \* the branch policy of the reduction
    file,                 \* the input file: [readable, columns, rows]
    pc,                   \* where the run is
    error,                \* what the run printed or raised when it stopped
    gdf,                  \* the frame: [columns, rows]
    cols,                 \* the columns kept
    id_col,               \* the grouping column
    groups,               \* gdf.groupby(id_col), as the loop walks it
    gi,                   \* the group the loop is at
    line_geoms_to_merge,  \* the loop body's locals, as the last pass left them
    combined,
    geometry_to_simplify,
    simplified,
    processed,            \* the rows collected
    output,               \* the rows written to output_path
    query,                \* the screener's address: [geocoded, inside, gen_cap, load_cap]
    result,               \* the screener's row for it
    total_records,        \* fetch_heavy_data: the count the server gave
    offset,               \* resultOffset of the next request
    chunk_size,           \* resultRecordCount of the next request
    all_features,         \* the sizes of the batches received
    fetched               \* what fetch_heavy_data returned

vars == <<script, type, policy, file, pc, error, gdf, cols, id_col, groups, gi,
          line_geoms_to_merge, combined, geometry_to_simplify, simplified,
          processed, output, query, result,
          total_records, offset, chunk_size, all_features, fetched>>

fetchVars == <<total_records, offset, chunk_size, all_features, fetched>>

analyzeVars == <<gdf, cols, id_col, groups, gi, line_geoms_to_merge, combined,
                 geometry_to_simplify, simplified, processed, output>>

Entries == {"create_load_or_gen_screen", "remove_branches_and_simplify"}

(***************************************************************************)
(* Input files.                                                            *)
(***************************************************************************)
LoadColumns == {"Feeder", "FIRST_F2034_Peak_MVA", "FIRST_Summer_Rating__MVA_",
                "FIRST_F2025_Peak_MVA", "FIRST_F2025_Peak__", "geometry"}
GenColumns == {"Network_ID", "HC", "Feeder_SN", "geometry"}

LoadRow(id, p34, rating, p25, pct, g) ==
    [Feeder |-> id, FIRST_F2034_Peak_MVA |-> p34, FIRST_Summer_Rating__MVA_ |-> rating,
     FIRST_F2025_Peak_MVA |-> p25, FIRST_F2025_Peak__ |-> pct, geometry |-> g]
GenRow(id, hc, sn, g) == [Network_ID |-> id, HC |-> hc, Feeder_SN |-> sn, geometry |-> g]

\* the points of the sample geometries
A == <<0, 0>>
B == <<1, 0>>
C == <<2, 0>>
D == <<1, 6>>
E == <<6, 6>>
F == <<10, 6>>
G == <<2, 1>>
H == <<4, 0>>
K == <<10, 10>>

GeomCatalog ==
    { NoneGeom,
      LineString(<<>>),
      Point(A),
      LineString(<<A, A>>),
      LineString(<<A, B>>),
      LineString(<<B, C>>),
      LineString(<<A, G, H>>),
      LineString(<<E, F, K>>),
      MultiLineString(<< <<B, D>>, <<C, B>> >>),
      MultiLineString(<< <<>>, <<A, B>> >>) }

Ids == {"F1", "f1", NA}

SeqsUpTo(S, n) == UNION {[1..m -> S] : m \in 0..n}

GeometryRows ==
    {LoadRow(id, Num(85), Num(100), Num(80), Num(80), g) : id \in Ids, g \in GeomCatalog}

Numerators == {Num(85), Num(95), Num(1), NumText(85), Text, Null}
Denominators == {Num(100), Num(3), Num(0), Text, Null}
Fractions == {Num(84), Num(85), Null}

LoadMetricRows ==
    {LoadRow("F1", p34, rating, p25, pct, LineString(<<A, B>>)) :
        p34 \in Numerators, rating \in Denominators,
        p25 \in {Num(50)}, pct \in Fractions}
GenMetricRows ==
    {GenRow("F1", hc, sn, LineString(<<A, B>>)) : hc \in Numerators, sn \in Denominators}

File(columns, rows) ==
    [readable |-> TRUE, columns |-> columns,
     rows |-> [i \in 1..Len(rows) |-> Project(rows[i], columns)]]
Unreadable == [readable |-> FALSE, columns |-> {}, rows |-> <<>>]

LoadSample == <<LoadRow("F1", Num(85), Num(100), Num(80), Num(80), LineString(<<A, B>>))>>
GenSample == <<GenRow("F1", Num(85), Num(100), LineString(<<A, B>>))>>

\* files of two features that differ in the denominator
LoadPairRows ==
    {LoadRow("F1", Num(85), rating, Num(50), Num(84), LineString(<<A, B>>)) :
        rating \in {Num(100), Num(0), Text}}
GenPairRows ==
    {GenRow("F1", Num(85), sn, LineString(<<A, B>>)) : sn \in {Num(100), Num(0), Text}}

LoadFiles ==
    {File(LoadColumns, rows) : rows \in SeqsUpTo(LoadMetricRows, MaxMetricRows)}
    \cup {File(LoadColumns, <<r, q>>) : r, q \in LoadPairRows}
    \cup {File(LoadColumns \ {c}, LoadSample) : c \in {"Feeder", "FIRST_F2025_Peak_MVA"}}
    \cup {Unreadable}
GenFiles ==
    {File(GenColumns, rows) : rows \in SeqsUpTo(GenMetricRows, MaxMetricRows)}
    \cup {File(GenColumns, <<r, q>>) : r, q \in GenPairRows}
    \cup {File(GenColumns \ {c}, GenSample) : c \in {"Network_ID", "HC"}}
    \cup {Unreadable}

Caps == {Num(89), Num(90), Num(91), NaN}
Queries ==
    [geocoded : BOOLEAN, inside : BOOLEAN, gen_cap : Caps, load_cap : Caps]
NoQuery == [geocoded |-> FALSE, inside |-> FALSE, gen_cap |-> NaN, load_cap |-> NaN]

(***************************************************************************)
(* Init: a run of one of the two functions of feeder_analyze.py on an      *)
(* input file, or the screener on one address.                             *)
(***************************************************************************)
\* the value fetch_heavy_data returns: None, or the concatenated batches
NotFetched == [k |-> "unset", rows |-> 0]
Concat(batches) ==
    IF batches = <<>> THEN [k |-> "None", rows |-> 0]
    ELSE [k |-> "frame", rows |-> SumSeq(batches)]

InitLocals ==
    /\ pc = "start"
    /\ error = ""
    /\ gdf = [columns |-> {}, rows |-> <<>>]
    /\ cols = {}
    /\ id_col = ""
    /\ groups = <<>>
    /\ gi = 0
    /\ line_geoms_to_merge = <<>>
    /\ combined = NoneGeom
    /\ geometry_to_simplify = NoneGeom
    /\ simplified = NoneGeom
    /\ processed = <<>>
    /\ output = <<>>
    /\ result = NoResult
    /\ total_records = 0
    /\ offset = 0
    /\ chunk_size = INITIAL_CHUNK_SIZE
    /\ all_features = <<>>
    /\ fetched = NotFetched

InitGeometry ==
    /\ script = "create_load_or_gen_screen"
    /\ type = "load"
    /\ file \in {File(LoadColumns, rows) : rows \in SeqsUpTo(GeometryRows, MaxRows)}
    /\ query = NoQuery

InitMetric ==
    /\ script \in Entries
    /\ type \in {"load", "gen", "storage"}
    /\ file \in IF type = "load" THEN LoadFiles ELSE GenFiles
    /\ query = NoQuery

InitScreener ==
    /\ script = "process_addresses"
    /\ type = ""
    /\ file = Unreadable
    /\ query \in Queries

InitFetch ==
    /\ script = "fetch_heavy_data"
    /\ type = ""
    /\ file = Unreadable
    /\ query = NoQuery

\* the source has one policy: every component of the merged geometry is kept
Init ==
    /\ InitLocals
    /\ policy = "PreserveAll"
    /\ InitGeometry \/ InitMetric \/ InitScreener \/ InitFetch

\* the policies of the Topology-Aware Reducer that the properties speak of
Policies == {"PreserveAll", "MainTrunkOnly"}

\* a run under a policy the caller chose; the metric files hold one line
\* each, which every policy keeps
InitPolicy ==
    /\ InitLocals
    /\ \/ policy \in Policies /\ InitGeometry
       \/ policy = "PreserveAll" /\ (InitMetric \/ InitScreener \/ InitFetch)

(***************************************************************************)
(* feeder_analyze.py                                                       *)
(***************************************************************************)
\* gpd.read_file(input_path) in try/except: print the error and return
ReadFile ==
    /\ script \in Entries
    /\ pc = "start"
    /\ IF file.readable
       THEN /\ gdf' = [columns |-> file.columns, rows |-> file.rows]
            /\ pc' = "derive"
            /\ error' = error
       ELSE /\ gdf' = gdf
            /\ pc' = "returned"
            /\ error' = "Error reading file"
    /\ UNCHANGED fetchVars
    /\ UNCHANGED <<script, type, policy, file, cols, id_col, groups, gi, line_geoms_to_merge,
                   combined, geometry_to_simplify, simplified, processed, output,
                   query, result>>

\* which branch of the if on type the function takes
Branch ==
    IF type = "load" THEN "load"
    ELSE IF script = "create_load_or_gen_screen"
         THEN (IF type = "gen" THEN "gen" ELSE "unknown")
         ELSE "gen"

\* the columns the branch reads with gdf[...]
NumericColumns ==
    IF Branch = "load"
    THEN (IF script = "create_load_or_gen_screen"
          THEN LoadNumericHead ELSE LoadNumericIncoming)
    ELSE GenNumeric

DeriveRow(row) ==
    IF script = "create_load_or_gen_screen"
    THEN (IF Branch = "load" THEN DeriveLoadHead(row) ELSE DeriveGenHead(row))
    ELSE (IF Branch = "load" THEN DeriveLoadIncoming(row) ELSE DeriveGenIncoming(row))

DerivedColumns ==
    IF script = "create_load_or_gen_screen"
    THEN (IF Branch = "load" THEN {"load_peak_25", "load_peak_34", "HP_Ready"}
          ELSE {"gen_util"})
    ELSE (IF Branch = "load" THEN {"Peak_34", "Ready"} ELSE {"Util"})

IdColumn == IF Branch = "load" THEN "Feeder" ELSE "Network_ID"

\* the if on type: derive the metric columns, choose cols and id_col
Derive ==
    /\ pc = "derive"
    /\ IF Branch = "unknown"
       THEN /\ pc' = "returned"
            /\ error' = "Error: Unknown type"
            /\ UNCHANGED <<gdf, cols, id_col>>
       ELSE IF ~(NumericColumns \subseteq gdf.columns)
       THEN /\ pc' = "raised"
            /\ error' = "KeyError"
            /\ UNCHANGED <<gdf, cols, id_col>>
       ELSE /\ gdf' = [columns |-> gdf.columns \cup DerivedColumns,
                       rows |-> [i \in 1..Len(gdf.rows) |-> DeriveRow(gdf.rows[i])]]
            /\ cols' = {IdColumn, "geometry"} \cup DerivedColumns
            /\ id_col' = IdColumn
            /\ pc' = "select"
            /\ error' = error
    /\ UNCHANGED fetchVars
    /\ UNCHANGED <<script, type, policy, file, groups, gi, line_geoms_to_merge,
                   combined, geometry_to_simplify, simplified, processed, output,
                   query, result>>

\* gdf = gdf[cols].copy() in try/except KeyError: print the error and return
SelectColumns ==
    /\ pc = "select"
    /\ IF cols \subseteq gdf.columns
       THEN /\ gdf' = [columns |-> cols,
                       rows |-> [i \in 1..Len(gdf.rows) |-> Project(gdf.rows[i], cols)]]
            /\ pc' = "groupby"
            /\ error' = error
       ELSE /\ gdf' = gdf
            /\ pc' = "returned"
            /\ error' = "Error: Missing required column"
    /\ UNCHANGED fetchVars
    /\ UNCHANGED <<script, type, policy, file, cols, id_col, groups, gi, line_geoms_to_merge,
                   combined, geometry_to_simplify, simplified, processed, output,
                   query, result>>

\* processed = []; for name, group in gdf.groupby(id_col):
GroupBy ==
    /\ pc = "groupby"
    /\ groups' = groupby(gdf.rows, id_col)
    /\ gi' = 1
    /\ processed' = <<>>
    /\ pc' = "loop"
    /\ UNCHANGED fetchVars
    /\ UNCHANGED <<script, type, policy, file, error, gdf, cols, id_col, line_geoms_to_merge,
                   combined, geometry_to_simplify, simplified, output, query, result>>

\* all_geoms = group.geometry.values
AllGeoms(group) == [i \in 1..Len(group.rows) |-> group.rows[i]["geometry"]]

\* cumulative path length of a line, in tenths of the coordinate unit
ISqrt(n) == CHOOSE r \in 0..n : r * r <= n /\ (r + 1) * (r + 1) > n
PathLength(c) == SumSeq([j \in 1..(Len(c) - 1) |-> ISqrt(100 * Dist2(c[j], c[j + 1]))])

\* MainTrunkOnly: among the connected components, the one of maximum
\* cumulative path length (the first of them when several are); the others
\* are discarded
MainTrunkOnly(merged) ==
    IF is_empty(merged) THEN merged
    ELSE LET parts == merged.parts
             best == CHOOSE i \in 1..Len(parts) :
                         \A j \in 1..Len(parts) :
                             /\ PathLength(parts[j]) <= PathLength(parts[i])
                             /\ j < i => PathLength(parts[j]) < PathLength(parts[i])
         IN  LineString(parts[best])

\* mutant: the longest component only, whatever the policy
GeometryToSimplify_trunk(merged) == MainTrunkOnly(merged)

\* geometry_to_simplify = combined
GeometryToSimplify(merged) == merged

\* the reduction's input under the policy of the run
SelectComponents(merged) ==
    IF policy = "MainTrunkOnly" THEN MainTrunkOnly(merged) ELSE GeometryToSimplify(merged)

\* mutant: only the first continue, an empty merged geometry goes on
ReachesAppend_piecesonly(pieces, to_simplify, simp) == pieces # <<>>

\* whether the pass reaches processed.append: none of the three continue
ReachesAppend(pieces, to_simplify, simp) ==
    /\ pieces # <<>>
    /\ ~is_empty(to_simplify)
    /\ ~is_empty(simp)

\* row_data = group.iloc[0].to_dict(); row_data['geometry'] = simplified
RowData(group, simp) == [group.rows[1] EXCEPT !["geometry"] = simp]

\* linemerge(lines) builds MultiLineString([ls.coords for ls in lines]), which
\* raises for an empty component: the empty part of a multi-part line, which
\* the flattening extends the list with unfiltered
linemergeRaises(pieces) == \E i \in 1..Len(pieces) : pieces[i] = <<>>

\* one pass of the loop body; a local the pass does not assign is NoneGeom.
\* Nothing in the loop catches an exception: it ends the run.
LoopBody ==
    /\ pc = "loop"
    /\ gi <= Len(groups)
    /\ LET group == groups[gi]
           pieces == FlattenLines(AllGeoms(group))
           merged == linemerge(pieces)
           to_simplify == SelectComponents(merged)
           simp == simplify(to_simplify)
       IN  IF pieces # <<>> /\ linemergeRaises(pieces)
           THEN /\ line_geoms_to_merge' = pieces
                /\ combined' = NoneGeom
                /\ geometry_to_simplify' = NoneGeom
                /\ simplified' = NoneGeom
                /\ processed' = processed
                /\ gi' = gi
                /\ pc' = "raised"
                /\ error' = "EmptyPartError"
           ELSE /\ line_geoms_to_merge' = pieces
                /\ combined' = IF pieces = <<>> THEN NoneGeom ELSE merged
                /\ geometry_to_simplify' = IF pieces = <<>> THEN NoneGeom ELSE to_simplify
                /\ simplified' = IF pieces = <<>> \/ is_empty(to_simplify)
                                 THEN NoneGeom ELSE simp
                /\ processed' = IF ReachesAppend(pieces, to_simplify, simp)
                                THEN Append(processed, RowData(group, simp))
                                ELSE processed
                /\ gi' = gi + 1
                /\ pc' = pc
                /\ error' = error
    /\ UNCHANGED fetchVars
    /\ UNCHANGED <<script, type, policy, file, gdf, cols, id_col, groups,
                   output, query, result>>

\* the row as to_file writes it
WrittenRow(row) == [row EXCEPT !["geometry"] = RoundGeometry(row["geometry"])]

\* result_gdf = GeoDataFrame(processed, crs=gdf.crs);
\* result_gdf.to_file(output_path, driver='GeoJSON', coordinate_precision=4).
\* With no row collected the frame has no geometry column: depending on the
\* geopandas release the constructor raises ValueError (a CRS without a
\* geometry column) or an empty file is written.
Save ==
    /\ pc = "loop"
    /\ gi > Len(groups)
    /\ \/ /\ output' = [i \in 1..Len(processed) |-> WrittenRow(processed[i])]
          /\ pc' = "done"
          /\ error' = error
       \/ /\ processed = <<>>
          /\ output' = output
          /\ pc' = "raised"
          /\ error' = "ValueError"
    /\ UNCHANGED fetchVars
    /\ UNCHANGED <<script, type, policy, file, gdf, cols, id_col, groups, gi,
                   line_geoms_to_merge, combined, geometry_to_simplify, simplified,
                   processed, query, result>>

(***************************************************************************)
(* hosting_screener.py                                                     *)
(***************************************************************************)
\* process_addresses, one address
ProcessAddress ==
    /\ script = "process_addresses"
    /\ pc = "start"
    /\ result' = IF query.geocoded
                 THEN check_eligibility(query.inside, query.gen_cap, query.load_cap)
                 ELSE GeocodingFailed
    /\ pc' = "done"
    /\ UNCHANGED fetchVars
    /\ UNCHANGED <<script, type, policy, file, error, query>>
    /\ UNCHANGED analyzeVars

(***************************************************************************)
(* feeder_extract.py: fetch_heavy_data.  What the server answers, and      *)
(* whether a request fails, is the environment's choice.                   *)
(***************************************************************************)
fetchLocals == <<total_records, offset, chunk_size, all_features>>
otherVars == <<script, type, policy, file, query, result>>

Min(a, b) == IF a < b THEN a ELSE b
Max(a, b) == IF a < b THEN b ELSE a

\* total_records = count_resp.json().get('count', 0); offset = 0;
\* chunk_size = 25; the count request is not in a try
GetCount ==
    /\ script = "fetch_heavy_data"
    /\ pc = "start"
    /\ \/ /\ total_records' \in 0..MaxRecords
          /\ all_features' = <<>>
          /\ offset' = 0
          /\ chunk_size' = INITIAL_CHUNK_SIZE
          /\ pc' = "while"
          /\ error' = error
       \/ /\ pc' = "raised"
          /\ error' = "RequestException"
          /\ UNCHANGED fetchLocals
    /\ fetched' = fetched
    /\ UNCHANGED otherVars
    /\ UNCHANGED analyzeVars

\* while offset < total_records: ... ; after the loop, return the
\* concatenated batches, or None
LoopTest ==
    /\ script = "fetch_heavy_data"
    /\ pc = "while"
    /\ IF offset < total_records
       THEN pc' = "post" /\ fetched' = fetched
       ELSE pc' = "returned" /\ fetched' = Concat(all_features)
    /\ UNCHANGED <<error, fetchLocals, otherVars>>
    /\ UNCHANGED analyzeVars

\* the request succeeds with a batch that is not empty:
\* all_features.append(batch_gdf); offset += len(batch_gdf)
ChunkSucceeds ==
    /\ script = "fetch_heavy_data"
    /\ pc = "post"
    /\ \E n \in 1..Min(chunk_size, MaxRecordCount) :
          /\ all_features' = Append(all_features, n)
          /\ offset' = offset + n
    /\ pc' = "while"
    /\ UNCHANGED <<error, total_records, chunk_size, fetched, otherVars>>
    /\ UNCHANGED analyzeVars

\* the request succeeds with an empty batch: break, then return
ChunkEmpty ==
    /\ script = "fetch_heavy_data"
    /\ pc = "post"
    /\ pc' = "returned"
    /\ fetched' = Concat(all_features)
    /\ UNCHANGED <<error, fetchLocals, otherVars>>
    /\ UNCHANGED analyzeVars

\* chunk_size = max(1, chunk_size // 2)
HalvedChunk(size) == Max(1, size \div 2)

\* the request raises: halve the chunk; if chunk_size < 1: break
ChunkFails ==
    /\ script = "fetch_heavy_data"
    /\ pc = "post"
    /\ chunk_size' = HalvedChunk(chunk_size)
    /\ IF chunk_size' < 1
       THEN pc' = "returned" /\ fetched' = Concat(all_features)
       ELSE pc' = "while" /\ fetched' = fetched
    /\ UNCHANGED <<error, total_records, offset, all_features, otherVars>>
    /\ UNCHANGED analyzeVars

Next ==
    \/ GetCount
    \/ LoopTest
    \/ ChunkSucceeds
    \/ ChunkEmpty
    \/ ChunkFails
    \/ ReadFile
    \/ Derive
    \/ SelectColumns
    \/ GroupBy
    \/ LoopBody
    \/ Save
    \/ ProcessAddress

Spec == Init /\ [][Next]_vars

\* the runs under either policy
PolicySpec == InitPolicy /\ [][Next]_vars

\* the runs of fetch_heavy_data.  The interpreter keeps running the program:
\* some step is taken whenever one can be; which answer a request gets is
\* left to the server
FetchInit == InitLocals /\ policy = "PreserveAll" /\ InitFetch
FetchNext == GetCount \/ LoopTest \/ ChunkSucceeds \/ ChunkEmpty \/ ChunkFails
FetchSpec == FetchInit /\ [][FetchNext]_vars /\ WF_vars(FetchNext)

(***************************************************************************)
(* Vocabulary of the properties.                                           *)
(***************************************************************************)
Abs(n) == IF n < 0 THEN 0 - n ELSE n
Count(seq, x) == Cardinality({i \in 1..Len(seq) : seq[i] = x})

Grouped == gi >= 1                    \* groupby has run
LoopFinished == Grouped /\ gi > Len(groups)
PassDone == gi >= 2                   \* the locals are those of pass gi - 1
\* the pass reached linemerge, which returned
Merged == PassDone /\ line_geoms_to_merge # <<>> /\ error # "EmptyPartError"
Simplified == PassDone /\ simplified.t # "None"    \* the pass reached simplify
Derived == cols # {}                  \* the metric columns are in gdf

\* a raw value that to_numeric reads as a number
IsNumber(x) == x.k \in {"num", "numtext"}
InvalidDenominator(d) == ~IsNumber(d) \/ d.v = 0

\* m (tenths) is n/d*100 rounded to one decimal: |m/10 - 100 n/d| <= 0.05
NearestTenth(m, n, d) == m.k = "num" /\ 2 * Abs(m.v * d - n * 1000) <= Abs(d)

\* <<metric, numerator field, denominator field>> of the run
MetricFields ==
    IF id_col = "Feeder"
    THEN IF script = "create_load_or_gen_screen"
         THEN {<<"load_peak_34", "FIRST_F2034_Peak_MVA", "FIRST_Summer_Rating__MVA_">>,
               <<"load_peak_25", "FIRST_F2025_Peak_MVA", "FIRST_Summer_Rating__MVA_">>}
         ELSE {<<"Peak_34", "FIRST_F2034_Peak_MVA", "FIRST_Summer_Rating__MVA_">>}
    ELSE IF script = "create_load_or_gen_screen"
         THEN {<<"gen_util", "HC", "Feeder_SN">>}
         ELSE {<<"Util", "HC", "Feeder_SN">>}

Components == combined.parts
ComponentsWith(p) ==
    {c \in 1..Len(Components) : \E j \in 1..Len(Components[c]) : Components[c][j] = p}
Ends(c) == {c[1], c[Len(c)]}
InteriorVertex(edges, p) == \E e \in 1..Len(edges) : \E j \in 2..(Len(edges[e]) - 1) : edges[e][j] = p
SegmentCount(lines) == SumSeq([i \in 1..Len(lines) |-> Len(lines[i]) - 1])
SegmentSet(lines) ==
    UNION {{{lines[i][j], lines[i][j + 1]} : j \in 1..(Len(lines[i]) - 1)} :
           i \in 1..Len(lines)}
\* the line c, in either direction, is a run of the line comp
RunOf(c, comp) ==
    \E k \in 1..(Len(comp) - Len(c) + 1) :
        SubSeq(comp, k, k + Len(c) - 1) \in {c, Reverse(c)}

(***************************************************************************)
(* C1.  Grouping by the identifier column.  As claimed: every input        *)
(* segment, one with a null identifier included, is in exactly one group,  *)
(* the group named by its identifier.                                      *)
(***************************************************************************)
InGroups(r) == SumSeq([g \in 1..Len(groups) |-> Count(groups[g].rows, r)])

C1_EverySegmentGrouped ==
    Grouped =>
        \A i \in 1..Len(gdf.rows) :
            LET r == gdf.rows[i]
            IN  /\ InGroups(r) = Count(gdf.rows, r)
                /\ \A g \in 1..Len(groups) :
                       Count(groups[g].rows, r) > 0 => groups[g].name = r[id_col]

\* C1, amended: every segment whose identifier is not null is in exactly one
\* group, the one named by its exact identifier, as often as it is in the
\* input; a segment whose identifier is null is in no group; no two groups
\* have the same name and no group is empty.
C1_NonNullSegmentsGrouped ==
    Grouped =>
        /\ \A i \in 1..Len(gdf.rows) :
               LET r == gdf.rows[i]
               IN  IF r[id_col] = NA
                   THEN InGroups(r) = 0
                   ELSE /\ InGroups(r) = Count(gdf.rows, r)
                        /\ \A g \in 1..Len(groups) :
                               Count(groups[g].rows, r) > 0 => groups[g].name = r[id_col]
        /\ \A g, h \in 1..Len(groups) : groups[g].name = groups[h].name => g = h
        /\ \A g \in 1..Len(groups) : groups[g].rows # <<>> /\ groups[g].name # NA

C1_Witness ==
    /\ Grouped
    /\ Len(groups) = 1
    /\ Len(gdf.rows) = 2
    /\ \E i \in 1..Len(gdf.rows) : gdf.rows[i][id_col] = NA

(***************************************************************************)
(* C2.  The derived metrics.  As claimed: with a zero, missing or          *)
(* non-numeric denominator every metric is 0.0, and with a valid one every *)
(* metric, Util and gen_util included, is round(numerator / denominator *  *)
(* 100, 1).                                                                *)
(***************************************************************************)
C2_MetricIsScaledRatio ==
    Derived =>
        \A i \in 1..Len(gdf.rows) : \A t \in MetricFields :
            LET m == gdf.rows[i][t[1]]
                n == file.rows[i][t[2]]
                d == file.rows[i][t[3]]
            IN  /\ InvalidDenominator(d) => m = Num(0)
                /\ ~InvalidDenominator(d) /\ IsNumber(n) => NearestTenth(m, n.v, d.v)

\* C2, amended: with a zero, missing or non-numeric denominator every metric
\* is 0.0 whatever the numerator; with a valid denominator the load metrics
\* are round(numerator / rating * 100, 1), the generation metric is
\* round((1 - HC / Feeder_SN) * 100, 1), and a missing or non-numeric
\* numerator gives a missing metric.
C2_MetricByMode ==
    Derived =>
        \A i \in 1..Len(gdf.rows) : \A t \in MetricFields :
            LET m == gdf.rows[i][t[1]]
                n == file.rows[i][t[2]]
                d == file.rows[i][t[3]]
            IN  /\ InvalidDenominator(d) => m = Num(0)
                /\ ~InvalidDenominator(d) /\ ~IsNumber(n) => m = NaN
                /\ ~InvalidDenominator(d) /\ IsNumber(n) =>
                       IF id_col = "Feeder"
                       THEN NearestTenth(m, n.v, d.v)
                       ELSE NearestTenth(m, d.v - n.v, d.v)

\* a generation file of two features: HC 85 over Feeder_SN 100 gives 15.0,
\* HC 85 over Feeder_SN 0 gives 0.0
C2_Witness ==
    /\ Derived
    /\ id_col = "Network_ID"
    /\ \E i, j \in 1..Len(gdf.rows) : \E t \in MetricFields :
          /\ file.rows[i][t[2]] = Num(85)
          /\ file.rows[i][t[3]] = Num(100)
          /\ gdf.rows[i][t[1]] = Num(150)
          /\ file.rows[j][t[2]] = Num(85)
          /\ file.rows[j][t[3]] = Num(0)
          /\ gdf.rows[j][t[1]] = Num(0)

(***************************************************************************)
(* C3.  Components of the merged geometry.  As claimed: never more than    *)
(* the group has rows.                                                     *)
(***************************************************************************)
C3_ComponentsAtMostRows ==
    Merged => Len(Components) <= Len(groups[gi - 1].rows)

\* C3, amended: never more components than the group has line pieces after
\* its multi-part rows are flattened; a multi-part row counts once for each
\* of its parts, so the count can exceed the number of rows.
C3_ComponentsAtMostPieces ==
    Merged => Len(Components) <= Len(line_geoms_to_merge)

C3_Witness ==
    /\ Merged
    /\ Len(line_geoms_to_merge) > Len(groups[gi - 1].rows)
    /\ Len(Components) > Len(groups[gi - 1].rows)

(***************************************************************************)
(* C4.  Points of the merged geometry.  As claimed: every point of every   *)
(* usable piece (here: of every piece that has two distinct points) lies   *)
(* in exactly one component, a junction of three or more pieces included.  *)
(***************************************************************************)
C4_EveryPointInOneComponent ==
    Merged =>
        \A p \in PointsOf(MergeEdges(line_geoms_to_merge)) :
            Cardinality(ComponentsWith(p)) = 1

\* C4, amended: the merged geometry has exactly the points and the segments
\* of the pieces that have two distinct points (none lost, none added, no
\* segment twice); a point lies in two components only where three or more
\* piece ends meet or where it is a vertex inside a piece; a piece whose
\* coordinates are all equal adds nothing; and the fragments (0,0)-(1,0) and
\* (1,0)-(2,0) merge into the one path (0,0),(1,0),(2,0).
C4_PointsKeptJunctionsShared ==
    Merged =>
        LET edges == MergeEdges(line_geoms_to_merge)
        IN  /\ PointsOf(Components) = PointsOf(edges)
            /\ SegmentSet(Components) = SegmentSet(edges)
            /\ SegmentCount(Components) = SegmentCount(edges)
            /\ \A p \in PointsOf(edges) :
                   Cardinality(ComponentsWith(p)) >= 2 =>
                       Degree(edges, p) >= 3 \/ InteriorVertex(edges, p)
            /\ line_geoms_to_merge = << <<A, B>>, <<B, C>> >> =>
                   combined = LineString(<<A, B, C>>)

C4_Witness ==
    /\ Merged
    /\ Cardinality(ComponentsWith(B)) = 3
    /\ Degree(MergeEdges(line_geoms_to_merge), B) = 3

(***************************************************************************)
(* C5.  Connectivity.  As claimed: no two components share an endpoint,    *)
(* and two pieces that share an endpoint are in the same component.        *)
(***************************************************************************)
C5_NoSharedEndpoint ==
    Merged =>
        LET edges == MergeEdges(line_geoms_to_merge)
        IN  /\ \A c, d \in 1..Len(Components) :
                   c # d => Ends(Components[c]) \cap Ends(Components[d]) = {}
            /\ \A a, b \in 1..Len(edges) :
                   a # b /\ Ends(edges[a]) \cap Ends(edges[b]) # {} =>
                       \E c \in 1..Len(Components) :
                           RunOf(edges[a], Components[c]) /\ RunOf(edges[b], Components[c])

\* C5, amended: two components share an endpoint only at a point where three
\* or more piece ends meet; where exactly two piece ends meet, the two pieces
\* are in the same component.
C5_SharedEndpointOnlyAtJunction ==
    Merged =>
        LET edges == MergeEdges(line_geoms_to_merge)
        IN  /\ \A c, d \in 1..Len(Components) :
                   c # d =>
                       \A p \in Ends(Components[c]) \cap Ends(Components[d]) :
                           Degree(edges, p) >= 3
            /\ \A a, b \in 1..Len(edges) :
                   (a # b /\ \E p \in Ends(edges[a]) \cap Ends(edges[b]) : Degree(edges, p) = 2) =>
                       \E c \in 1..Len(Components) :
                           RunOf(edges[a], Components[c]) /\ RunOf(edges[b], Components[c])

C5_Witness ==
    /\ Merged
    /\ \E c, d \in 1..Len(Components) :
          c # d /\ Ends(Components[c]) \cap Ends(Components[d]) # {}

(***************************************************************************)
(* C6.  simplify(0.00001, preserve_topology=True) on the whole merged      *)
(* geometry keeps the number of components, short spurs included, and      *)
(* never adds a vertex.                                                    *)
(***************************************************************************)
C6_SimplifyKeepsComponents ==
    Simplified =>
        /\ Len(simplified.parts) = Len(Components)
        /\ VertexCount(simplified) <= VertexCount(combined)
        /\ \A c \in 1..Len(Components) : Len(simplified.parts[c]) >= 2

\* two components, one of them shortened, the other a bend that is kept
C6_Witness ==
    /\ Simplified
    /\ Len(Components) = 2
    /\ VertexCount(simplified) < VertexCount(combined)
    /\ \E c \in 1..Len(Components) : Len(simplified.parts[c]) = 3

HasLine(k) ==
    \E i \in 1..Len(gdf.rows) :
        LET g == gdf.rows[i]["geometry"]
        IN  /\ gdf.rows[i][id_col] = k
            /\ g.t \in {"LineString", "MultiLineString"}
            /\ \E q \in 1..Len(g.parts) :
                   \E a, b \in 1..Len(g.parts[q]) : g.parts[q][a] # g.parts[q][b]

RowsOf(rows, k) == Cardinality({i \in 1..Len(rows) : rows[i][id_col] = k})

FlagColumn == IF script = "create_load_or_gen_screen" THEN "HP_Ready" ELSE "Ready"
Peak34Column == IF script = "create_load_or_gen_screen" THEN "load_peak_34" ELSE "Peak_34"
Below(x, limit) == x.k = "num" /\ x.v < limit

C9_FlagIffBelowThresholds ==
    /\ (Derived /\ id_col = "Feeder") =>
           \A i \in 1..Len(gdf.rows) :
               LET flag == gdf.rows[i][FlagColumn]
                   pct == file.rows[i]["FIRST_F2025_Peak__"]
                   m34 == gdf.rows[i][Peak34Column]
               IN  /\ flag \in {"Y", "N"}
                   /\ flag = "Y" <=>
                          (IsNumber(pct) /\ pct.v < 85 /\ Below(m34, 950))
    /\ (script = "process_addresses" /\ pc = "done") =>
           /\ result.battery_incentive_eligible = "yes" <=>
                  (Below(result.GEN_CAPACITY_PCT, 90) /\ Below(result.LOAD_CAPACITY_PCT, 90))
           /\ result.heat_pump_incentive_eligible = "yes" <=>
                  Below(result.LOAD_CAPACITY_PCT, 90)

\* a feature below the first threshold whose metric is not below the second
C9_Witness ==
    /\ Derived
    /\ id_col = "Feeder"
    /\ \E i \in 1..Len(gdf.rows) :
          /\ file.rows[i]["FIRST_F2025_Peak__"] = Num(84)
          /\ gdf.rows[i][Peak34Column] = Num(950)
          /\ gdf.rows[i][FlagColumn] = "N"

(***************************************************************************)
(* C10.  Writing with coordinate_precision=4 rounds every coordinate to    *)
(* the grid: rounding what was written again changes nothing, and the      *)
(* written geometry has as many vertices as the one handed to to_file.     *)
(***************************************************************************)
OnGrid(g) ==
    \A i \in 1..Len(g.parts) : \A j \in 1..Len(g.parts[i]) :
        g.parts[i][j][1] % 10 = 0 /\ g.parts[i][j][2] % 10 = 0

C10_RoundingIdempotent ==
    pc = "done" =>
        /\ Len(output) = Len(processed)
        /\ \A i \in 1..Len(output) :
               LET written == output[i]["geometry"]
                   given == processed[i]["geometry"]
               IN  /\ RoundGeometry(written) = written
                   /\ OnGrid(written)
                   /\ Len(written.parts) = Len(given.parts)
                   /\ \A q \in 1..Len(given.parts) :
                          Len(written.parts[q]) = Len(given.parts[q])

\* rounding moved a coordinate and made two vertices of a line equal
C10_Witness ==
    /\ pc = "done"
    /\ \E i \in 1..Len(output) :
          LET written == output[i]["geometry"]
          IN  /\ written # processed[i]["geometry"]
              /\ \E q \in 1..Len(written.parts) :
                     written.parts[q][1] = written.parts[q][2]

(***************************************************************************)
(* C11.  Per-network failures never abort the batch.  As claimed: when the *)
(* run has ended, every network that yields a row when its features are    *)
(* the whole input has that same row in the output, whatever happened to   *)
(* the other networks of the batch.                                        *)
(***************************************************************************)
Ended == pc \in {"done", "raised", "returned"}

\* the rows written by a run on the features of network k alone
AloneRows(k) ==
    LET gs == groupby(SelectSeq(gdf.rows, LAMBDA r : r[id_col] = k), id_col)
    IN  IF gs = <<>> THEN <<>>
        ELSE LET group == gs[1]
                 pieces == FlattenLines(AllGeoms(group))
                 to_simplify == SelectComponents(linemerge(pieces))
                 simp == simplify(to_simplify)
             IN  IF pieces = <<>> \/ linemergeRaises(pieces) THEN <<>>
                 ELSE IF ReachesAppend(pieces, to_simplify, simp)
                      THEN <<WrittenRow(RowData(group, simp))>>
                      ELSE <<>>

C11_FailureIsolated ==
    (Grouped /\ Ended) =>
        \A k \in Ids \ {NA} :
            \A i \in 1..Len(AloneRows(k)) :
                \E j \in 1..Len(output) : output[j] = AloneRows(k)[i]

\* what holds of the source: a run that ends without an exception wrote, for
\* every network, the row the network yields alone; the networks left out
\* (no identifier, no usable piece, an empty merged geometry) took no other
\* network's row with them
C11_ExclusionIsolated ==
    (Grouped /\ pc = "done") =>
        /\ \A k \in Ids \ {NA} :
               \A i \in 1..Len(AloneRows(k)) :
                   \E j \in 1..Len(output) : output[j] = AloneRows(k)[i]
        /\ \A j \in 1..Len(output) :
               AloneRows(output[j][id_col]) = <<output[j]>>

(***************************************************************************)
(* C12.  Invalid configuration is rejected before any processing begins.   *)
(* As claimed: with a type that is neither 'load' nor 'gen' the run reads  *)
(* no input feature, derives no metric, groups nothing and writes no       *)
(* output, and it ends by reporting the unknown type (or that the file     *)
(* cannot be read).                                                        *)
(***************************************************************************)
InvalidType == script \in Entries /\ type \notin {"load", "gen"}

C12_InvalidTypeRejected ==
    InvalidType =>
        /\ gdf.rows = <<>>
        /\ ~Derived
        /\ ~Grouped
        /\ output = <<>>
        /\ Ended => /\ pc = "returned"
                    /\ error \in {"Error: Unknown type", "Error reading file"}

\* what holds of create_load_or_gen_screen alone: the type is looked at only
\* after the file is read, then nothing is derived or written
C12_RejectedAfterReading ==
    (InvalidType /\ script = "create_load_or_gen_screen") =>
        /\ ~Derived
        /\ ~Grouped
        /\ output = <<>>
        /\ Ended => /\ pc = "returned"
                    /\ error \in {"Error: Unknown type", "Error reading file"}

(***************************************************************************)
(* C13.  fetch_heavy_data's download loop terminates.  As claimed: for     *)
(* every sequence of server responses, one in which every request at some  *)
(* offset fails included, the run of fetch_heavy_data eventually ends.     *)
(***************************************************************************)
C13_LoopTerminates == (script = "fetch_heavy_data") ~> Ended

\* what holds of the source: a failure halves the chunk size, never below 1,
\* and leaves the offset; a batch advances the offset by its size and leaves
\* the chunk size; the offset never decreases; and the loop is left only
\* with offset >= total_records or on an empty batch, never by giving up
C13_OffsetAdvances ==
    [][script = "fetch_heavy_data" /\ pc \in {"while", "post"} =>
          /\ offset' >= offset
          /\ chunk_size' >= 1
          /\ chunk_size' \in {chunk_size, Max(1, chunk_size \div 2)}
          /\ chunk_size' # chunk_size => offset' = offset /\ pc' = "while"
          /\ offset' # offset =>
                 /\ all_features' = Append(all_features, offset' - offset)
                 /\ chunk_size' = chunk_size
          /\ pc' = "returned" =>
                 \/ pc = "while" /\ offset >= total_records
                 \/ pc = "post" /\ chunk_size' = chunk_size /\ offset' = offset]_vars

====
